---- MODULE Spec2Model ----
(***************************************************************************)
(* Draco codec runtime: DracoCodec.initialize / dispose (dracoCodec.ts),   *)
(* DracoDecoderClass.decodeMeshToMeshDataAsync (dracoDecoder.ts) and the   *)
(* worker pool and worker they drive, and the DracoCompression facade     *)
(* with its default instance (dracoCompression.ts).  Promises, their       *)
(* then-callbacks and the microtask queue are explicit, so that the order  *)
(* in which callbacks registered on one promise run is the order of        *)
(* registration.                                                           *)
(***************************************************************************)
EXTENDS Integers, Sequences, FiniteSets, TLC

\* ------------------------------------------------------------------ bounds
MaxJobs == 2        \* decode calls made by the caller
MaxInits == 2       \* initialize calls that install a promise
MaxEpochInits == 2  \* initialize calls between two dispose calls
MaxStray == 1       \* events a worker emits outside any job
ExtPoolMax == 1     \* maxWorkers of the pool the caller supplies
MaxCalls == 4       \* calls made through the DracoCompression facade
MaxCores == 10      \* largest navigator.hardwareConcurrency

\* dispose calls made by the caller: one between two installing initialize calls
MaxDisposes == MaxInits - 1

\* ------------------------------------------------------------- identities
NoPromise == 0      \* an undefined _workerPoolPromise / _modulePromise
ExtPool == 0        \* the AutoReleaseWorkerPool object the caller supplies
NoWorker == 0
NoJob == 0

PoolIds == 0..MaxInits

Kinds == {"position", "normal"}

\* ---------------------------------------------------------- configuration
\* IDracoCodecConfiguration after the merge over _defaultConfig: wasmUrls
\* stands for (wasmUrl && wasmBinaryUrl), each field TRUE when set.
Cfg(pool, n, bin, js, wasm, fb) ==
    [workerPool |-> pool, numWorkers |-> n, wasmBinary |-> bin, jsModule |-> js,
     wasmUrls |-> wasm, fallbackUrl |-> fb]

Configs ==
    { Cfg(TRUE,  2, FALSE, FALSE, TRUE,  TRUE),    \* external pool
      Cfg(FALSE, 1, FALSE, FALSE, TRUE,  TRUE),    \* one worker, binary fetched
      Cfg(FALSE, 2, TRUE,  FALSE, TRUE,  TRUE),    \* two workers, binary supplied
      Cfg(FALSE, 0, FALSE, FALSE, TRUE,  TRUE) }   \* in-process, defaults

\* --------------------------------------------------------------- messages
Msg(id, kind, data, normalized, total) ==
    [id |-> id, kind |-> kind, data |-> data, normalized |-> normalized,
     totalVertices |-> total]

NoOverride == [k \in Kinds |-> "undefined"]
PositionNormalized == [k \in Kinds |-> IF k = "position" THEN "true" ELSE "undefined"]

\* The inputs of decodeMeshToMeshDataAsync: compressed data and the glTF
\* normalized override.
DecodeInputs ==
    { [data |-> 0, ov |-> NoOverride],
      [data |-> 1, ov |-> NoOverride],
      [data |-> 2, ov |-> PositionNormalized] }

\* What the decode routine reports for a compressed buffer: the indices and
\* attribute events in emission order, then the number of points.
DecodeMeshEvents(d) ==
    CASE d = 0 -> << >>
      [] d = 1 -> << Msg("indices", "", 11, FALSE, 0),
                     Msg("attribute", "position", 12, FALSE, 0) >>
      [] OTHER -> << Msg("attribute", "position", 21, FALSE, 0),
                     Msg("attribute", "normal", 22, TRUE, 0) >>

DecodeMeshPoints(d) == CASE d = 0 -> 0 [] d = 1 -> 3 [] OTHER -> 2

\* The worker's reply to a decodeMesh message: the events, then decodeMeshDone.
WorkerScript(d) ==
    Append(DecodeMeshEvents(d), Msg("decodeMeshDone", "", 0, FALSE, DecodeMeshPoints(d)))

\* ------------------------------------------------------------------ state
VARIABLES
    workerPoolPromise,  \* DracoCodec._workerPoolPromise: a promise id or NoPromise
    modulePromise,      \* DracoCodec._modulePromise: a promise id or NoPromise
    proms,              \* the promises initialize installed, by id
    pools,              \* the worker pools, by id
    workers,            \* the workers ever created, by id
    jobs,               \* the decodeMeshToMeshDataAsync calls, in call order
    mq,                 \* the microtask queue
    env,                \* the runtime: Worker/URL, WebAssembly, DracoDecoderModule
    epoch,              \* history: dispose calls so far
    epochInits,         \* history: initialize calls since the last dispose
    firstConfig,        \* history: the configuration of the first of these calls
    strays,             \* history: events emitted by workers outside any job
    Default,            \* DracoCompression._Default: an instance id, 0 when null
    instances,          \* the DracoCompression instances constructed, by id
    calls,              \* history: the calls made through the facade, in order
    buffers             \* the caller's ArrayBuffers, by the data they were filled with

vars == <<workerPoolPromise, modulePromise, proms, pools, workers, jobs, mq, env,
          epoch, epochInits, firstConfig, strays, Default, instances, calls,
          buffers>>

facadeVars == <<Default, instances, calls>>

codecVars == <<workerPoolPromise, modulePromise, proms>>

Min(S) == CHOOSE x \in S : \A y \in S : x <= y

SeqToSet(s) == { s[i] : i \in DOMAIN s }

\* The part of the state the pool and dispatcher operations transform.
St == [pools |-> pools, workers |-> workers, jobs |-> jobs, mq |-> mq,
       buffers |-> buffers]

Commit(S) ==
    /\ pools' = S.pools
    /\ workers' = S.workers
    /\ jobs' = S.jobs
    /\ mq' = S.mq
    /\ buffers' = S.buffers

Callback(t, j, w, p) == [t |-> t, j |-> j, w |-> w, p |-> p]


\* ------------------------------------------------------------ worker pool
\* workerInfo.workerPromise.then(cb): cb runs as a microtask once the worker
\* has answered its bootstrap message.
WorkerThen(S, w, cb) ==
    IF S.workers[w].ready
    THEN [S EXCEPT !.mq = Append(@, cb)]
    ELSE [S EXCEPT !.workers[w].thens = Append(@, cb)]

\* WorkerPool._execute: the worker is taken and the action runs on it once
\* the worker promise has resolved.
PoolExecute(S, p, w, j) ==
    WorkerThen([S EXCEPT !.workers[w].idle = FALSE,
                         !.jobs[j].st = "assigned",
                         !.jobs[j].worker = w],
               w, Callback("exec", j, w, p))

\* createWorkerAsync of the pool: new Worker(blobUrl) bootstrapped by
\* initializeWebWorker(worker, wasmBinary, url).
NewWorker(S, p, j) ==
    [pool |-> p, prom |-> S.jobs[j].prom, ready |-> FALSE, terminated |-> FALSE, idle |-> FALSE,
     thens |-> << >>, onError |-> << >>, onMessage |-> << >>, wq |-> << >>,
     bin |-> S.pools[p].bin, url |-> S.pools[p].url]

\* AutoReleaseWorkerPool.push: an idle worker, else a new worker while fewer
\* than maxWorkers exist, else the action waits in the pool's queue.
PoolPush(S, p, j) ==
    LET infos == S.pools[p].infos
        idle == { i \in DOMAIN infos : S.workers[infos[i]].idle }
        w == Len(S.workers) + 1
        S0 == [S EXCEPT !.jobs[j].pool = p, !.jobs[j].pushed = TRUE]
    IN  IF idle # {}
        THEN PoolExecute(S0, p, infos[Min(idle)], j)
        ELSE IF Len(infos) < S.pools[p].max
        THEN PoolExecute([S0 EXCEPT !.workers = Append(@, NewWorker(S, p, j)),
                                   !.pools[p].infos = Append(@, w)],
                         p, w, j)
        ELSE [S0 EXCEPT !.pools[p].pending = Append(@, j),
                        !.jobs[j].st = "queued"]

\* The onComplete the pool hands to an action: the worker takes the next
\* queued action, or becomes idle.
PoolOnComplete(S, p, w) ==
    IF S.pools[p].pending # << >>
    THEN PoolExecute([S EXCEPT !.pools[p].pending = Tail(@)],
                     p, w, Head(S.pools[p].pending))
    ELSE [S EXCEPT !.workers[w].idle = TRUE]

RECURSIVE TerminateAll(_, _)
TerminateAll(S, ws) ==
    IF ws = << >> THEN S
    ELSE TerminateAll(WorkerThen(S, Head(ws), Callback("terminate", NoJob, Head(ws), S.workers[Head(ws)].pool)),
                      Tail(ws))

\* WorkerPool.dispose: every worker is terminated, the worker list and the
\* queue of waiting actions are emptied.
PoolDispose(S, p) ==
    LET S1 == TerminateAll(S, S.pools[p].infos)
    IN  [S1 EXCEPT !.pools[p].infos = << >>,
                   !.pools[p].pending = << >>,
                   !.pools[p].teardowns = @ + 1,
                   !.jobs = [k \in DOMAIN @ |->
                               IF k \in SeqToSet(S.pools[p].pending)
                               THEN [@[k] EXCEPT !.st = "dropped"]
                               ELSE @[k]]]

\* ------------------------------------------------------------- dispatcher
\* Promise resolve / reject: only the first settlement counts.
Settle(S, j, outcome, response, err) ==
    IF S.jobs[j].outcome = "pending"
    THEN [S EXCEPT !.jobs[j].outcome = outcome,
                   !.jobs[j].response = response,
                   !.jobs[j].err = err]
    ELSE S

\* applyGltfNormalizedOverride
applyGltfNormalizedOverride(ov, kind, normalized) ==
    IF ov[kind] # "undefined" THEN ov[kind] = "true" ELSE normalized

AttributeData(kind, data, normalized) ==
    [kind |-> kind, data |-> data, normalized |-> normalized]

MeshData(indices, attributes, totalVertices) ==
    [indices |-> indices, attributes |-> attributes, totalVertices |-> totalVertices]

\* A slip: the listeners stay on the worker.
RemoveNoListener(S, j, w) == S

\* A slip: only the error listener is removed.
RemoveErrorListenerOnly(S, j, w) ==
    [S EXCEPT !.workers[w].onError = SelectSeq(@, LAMBDA k : k # j)]

\* worker.removeEventListener("error", onError) and ("message", onMessage):
\* onError and onMessage list the jobs whose closures listen on the worker.
RemoveListeners(S, j, w) ==
    [S EXCEPT !.workers[w].onError = SelectSeq(@, LAMBDA k : k # j),
              !.workers[w].onMessage = SelectSeq(@, LAMBDA k : k # j)]

\* The two exits of a job: the listeners are removed, the promise is
\* settled and the worker goes back to the pool.
JobComplete(S, j, w) ==
    PoolOnComplete([S EXCEPT !.jobs[j].completes = @ + 1,
                             !.jobs[j].st = "released"],
                   S.jobs[j].pool, w)

\* A slip: the promise is rejected but onComplete is never called.
OnErrorNoRelease(S, j, w) ==
    Settle(RemoveListeners(S, j, w), j, "rejected", << >>, "ErrorEvent")

\* onError of the job's closure.
OnError(S, j, w) ==
    JobComplete(Settle(RemoveListeners(S, j, w), j, "rejected", << >>, "ErrorEvent"), j, w)

\* A slip: decodeMeshDone resolves the promise but onComplete is never called.
OnMessageNoRelease(S, j, w, message) ==
    CASE message.id = "indices" ->
           [S EXCEPT !.jobs[j].resultIndices = message.data]
      [] message.id = "attribute" ->
           [S EXCEPT !.jobs[j].resultAttributes =
               Append(@, AttributeData(message.kind, message.data,
                            applyGltfNormalizedOverride(S.jobs[j].input.ov, message.kind,
                                                        message.normalized)))]
      [] message.id = "decodeMeshDone" ->
           Settle(RemoveListeners(S, j, w), j, "resolved",
                  << MeshData(S.jobs[j].resultIndices, S.jobs[j].resultAttributes,
                              message.totalVertices) >>, "")
      [] OTHER -> S

\* A slip: a new attribute is put in front of the accumulated ones.
OnMessagePrepend(S, j, w, message) ==
    CASE message.id = "indices" ->
           [S EXCEPT !.jobs[j].resultIndices = message.data]
      [] message.id = "attribute" ->
           [S EXCEPT !.jobs[j].resultAttributes =
               << AttributeData(message.kind, message.data,
                     applyGltfNormalizedOverride(S.jobs[j].input.ov, message.kind,
                                                 message.normalized)) >> \o @]
      [] message.id = "decodeMeshDone" ->
           JobComplete(
             Settle(RemoveListeners(S, j, w), j, "resolved",
                    << MeshData(S.jobs[j].resultIndices, S.jobs[j].resultAttributes,
                                message.totalVertices) >>, ""),
             j, w)
      [] OTHER -> S

\* A slip: the first attribute already resolves the promise.
OnMessageResolveEarly(S, j, w, message) ==
    CASE message.id = "indices" ->
           [S EXCEPT !.jobs[j].resultIndices = message.data]
      [] message.id \in {"attribute", "decodeMeshDone"} ->
           JobComplete(
             Settle(RemoveListeners(S, j, w), j, "resolved",
                    << MeshData(S.jobs[j].resultIndices, S.jobs[j].resultAttributes,
                                message.totalVertices) >>, ""),
             j, w)
      [] OTHER -> S

\* A slip: a reply without indices and attributes is taken for a failure.
OnMessageRejectEmpty(S, j, w, message) ==
    CASE message.id = "indices" ->
           [S EXCEPT !.jobs[j].resultIndices = message.data]
      [] message.id = "attribute" ->
           [S EXCEPT !.jobs[j].resultAttributes =
               Append(@, AttributeData(message.kind, message.data,
                            applyGltfNormalizedOverride(S.jobs[j].input.ov, message.kind,
                                                        message.normalized)))]
      [] message.id = "decodeMeshDone" ->
           JobComplete(
             IF S.jobs[j].resultAttributes = << >> /\ S.jobs[j].resultIndices = 0
             THEN Settle(RemoveListeners(S, j, w), j, "rejected", << >>, "empty mesh")
             ELSE Settle(RemoveListeners(S, j, w), j, "resolved",
                         << MeshData(S.jobs[j].resultIndices, S.jobs[j].resultAttributes,
                                     message.totalVertices) >>, ""),
             j, w)
      [] OTHER -> S

\* onMessage of the job's closure.
OnMessage(S, j, w, message) ==
    CASE message.id = "indices" ->
           [S EXCEPT !.jobs[j].resultIndices = message.data]
      [] message.id = "attribute" ->
           [S EXCEPT !.jobs[j].resultAttributes =
               Append(@, AttributeData(message.kind, message.data,
                            applyGltfNormalizedOverride(S.jobs[j].input.ov, message.kind,
                                                        message.normalized)))]
      [] message.id = "decodeMeshDone" ->
           JobComplete(
             Settle(RemoveListeners(S, j, w), j, "resolved",
                    << MeshData(S.jobs[j].resultIndices, S.jobs[j].resultAttributes,
                                message.totalVertices) >>, ""),
             j, w)
      [] OTHER -> S

\* The action pushed to the pool: listeners are added, then a copy of the
\* data is posted to the worker.
\* A slip: the buffer under the caller's view is transferred, not a copy.
PostMessageTransferView(S, j, w) ==
    LET d == S.jobs[j].input.data
    IN  [S EXCEPT !.workers[w].wq = IF S.workers[w].terminated THEN @
                                    ELSE @ \o WorkerScript(S.buffers[d].bytes),
                  !.buffers[d].detached = TRUE,
                  !.jobs[j].sent = << S.buffers[d].bytes >>,
                  !.jobs[j].transferred = "dataView"]

\* dataViewCopy = dataView.slice(); worker.postMessage({id: "decodeMesh",
\* dataView: dataViewCopy, attributes}, [dataViewCopy.buffer]): the worker
\* receives the bytes the caller's buffer holds now, in a buffer of its own.
PostMessage(S, j, w) ==
    LET d == S.jobs[j].input.data
    IN  [S EXCEPT !.workers[w].wq = IF S.workers[w].terminated THEN @
                                    ELSE @ \o WorkerScript(S.buffers[d].bytes),
                  !.jobs[j].sent = << S.buffers[d].bytes >>,
                  !.jobs[j].transferred = "dataViewCopy"]

DispatchJob(S, j, w) ==
    PostMessage([S EXCEPT !.workers[w].onError = Append(@, j),
                          !.workers[w].onMessage = Append(@, j),
                          !.jobs[j].st = "inflight",
                          !.jobs[j].posted = TRUE],
                j, w)


\* The in-process path: decodeMesh runs on the module and its callbacks
\* fill the response.
InProcessAttributes(events) ==
    LET attrs == SelectSeq(events, LAMBDA m : m.id = "attribute")
    IN  [i \in DOMAIN attrs |-> AttributeData(attrs[i].kind, attrs[i].data, attrs[i].normalized)]

InProcessIndices(events) ==
    LET idx == SelectSeq(events, LAMBDA m : m.id = "indices")
    IN  IF idx = << >> THEN 0 ELSE idx[Len(idx)].data

InProcessDecode(S, j) ==
    LET d == S.jobs[j].input.data
    IN  Settle([S EXCEPT !.jobs[j].st = "done", !.jobs[j].invoked = TRUE], j, "resolved",
               << MeshData(InProcessIndices(DecodeMeshEvents(d)),
                           InProcessAttributes(DecodeMeshEvents(d)),
                           DecodeMeshPoints(d)) >>, "")

\* ------------------------------------------------------------------ codec
\* The runtime: typeof Worker === "function", typeof URL === "function",
\* typeof WebAssembly === "object", typeof DracoDecoderModule !== "undefined",
\* navigator.hardwareConcurrency (0 when navigator or the count is missing).
Env(worker, url, wasm, module, cores) ==
    [worker |-> worker, url |-> url, wasm |-> wasm, module |-> module,
     hardwareConcurrency |-> cores]

Envs == { Env(TRUE, TRUE, TRUE, FALSE, 8), Env(TRUE, TRUE, TRUE, TRUE, 8) }

NoPool ==
    [built |-> FALSE, max |-> 0, infos |-> << >>, pending |-> << >>,
     bin |-> "none", url |-> "", teardowns |-> 0]

\* A codec on which nothing has been called yet.
NewCodec ==
    /\ workerPoolPromise = NoPromise
    /\ modulePromise = NoPromise
    /\ proms = << >>
    /\ pools = [p \in PoolIds |->
                  IF p = ExtPool
                  THEN [NoPool EXCEPT !.built = TRUE, !.max = ExtPoolMax,
                                      !.bin = "caller", !.url = "caller"]
                  ELSE NoPool]
    /\ workers = << >>
    /\ jobs = << >>
    /\ mq = << >>
    /\ epoch = 0
    /\ epochInits = 0
    /\ firstConfig = << >>
    /\ strays = 0
    /\ Default = 0
    /\ instances = << >>
    /\ calls = << >>
    /\ buffers = [d \in { input.data : input \in DecodeInputs } |->
                    [bytes |-> d, detached |-> FALSE]]

Init == NewCodec /\ env \in Envs

\* A slip: the guard forgets the worker pool promise.
AlreadyInitializedModuleOnly == modulePromise # NoPromise

\* The guard of initialize.
AlreadyInitialized == workerPoolPromise # NoPromise \/ modulePromise # NoPromise

\* A slip: numWorkers is not consulted.
useWorkersAnyCount(c) == env.worker /\ env.url

\* A slip: the URL constructor is not consulted.
useWorkersNoUrl(c) == c.numWorkers # 0 /\ env.worker

\* numberOfWorkers && typeof Worker === "function" && typeof URL === "function"
useWorkers(c) == c.numWorkers # 0 /\ env.worker /\ env.url

urlNeeded(c) == useWorkers(c) \/ (~useWorkers(c) /\ ~c.jsModule)

WasmPath(c) == c.wasmUrls /\ env.wasm

\* codecInfo.url
CodecUrl(c) ==
    IF ~urlNeeded(c) THEN ""
    ELSE IF WasmPath(c) THEN "wasmUrl"
    ELSE IF c.fallbackUrl THEN "fallbackUrl" ELSE ""

\* A slip: the binary is fetched even when the bytes were supplied.
CodecBinaryAlwaysFetch(c) == IF WasmPath(c) THEN "fetch" ELSE "none"

\* codecInfo.wasmBinaryPromise: the bytes supplied, a fetch, or undefined
CodecBinary(c) ==
    IF WasmPath(c) THEN (IF c.wasmBinary THEN "provided" ELSE "fetch") ELSE "none"

\* A slip: the supplied pool is adopted only after the binary was fetched.
AdoptAfterFetch(c) ==
    [kind |-> "pool", st |-> "pending", phase |-> "fetch", cfg |-> c,
     url |-> "", bin |-> "fetch", pool |-> ExtPool, thens |-> << >>,
     epoch |-> epoch, err |-> "", fetches |-> 1, scripts |-> 0, creates |-> 0, factory |-> "none",
     disposedAtSettle |-> FALSE]

\* Promise.resolve(config.workerPool)
AdoptedPromise(c) ==
    [kind |-> "pool", st |-> "resolved", phase |-> "settled", cfg |-> c,
     url |-> "", bin |-> "none", pool |-> ExtPool, thens |-> << >>,
     epoch |-> epoch, err |-> "", fetches |-> 0, scripts |-> 0, creates |-> 0, factory |-> "none",
     disposedAtSettle |-> FALSE]

\* A slip: every initialization uses the same pool object.
ConstructedPromiseReusePool(c) ==
    [kind |-> IF useWorkers(c) THEN "pool" ELSE "module",
     st |-> "pending",
     phase |-> IF CodecBinary(c) = "fetch" THEN "fetch" ELSE "binary",
     cfg |-> c, url |-> CodecUrl(c), bin |-> CodecBinary(c),
     pool |-> IF useWorkers(c) THEN 1 ELSE ExtPool,
     thens |-> << >>, epoch |-> epoch, err |-> "",
     fetches |-> IF CodecBinary(c) = "fetch" THEN 1 ELSE 0,
     scripts |-> 0, creates |-> 0, factory |-> "none",
     disposedAtSettle |-> FALSE]

\* codecInfo.wasmBinaryPromise.then(...) of the worker or in-process branch
ConstructedPromise(c) ==
    [kind |-> IF useWorkers(c) THEN "pool" ELSE "module",
     st |-> "pending",
     phase |-> IF CodecBinary(c) = "fetch" THEN "fetch" ELSE "binary",
     cfg |-> c, url |-> CodecUrl(c), bin |-> CodecBinary(c),
     pool |-> IF useWorkers(c) THEN Len(proms) + 1 ELSE ExtPool,
     thens |-> << >>, epoch |-> epoch, err |-> "",
     fetches |-> IF CodecBinary(c) = "fetch" THEN 1 ELSE 0,
     scripts |-> 0, creates |-> 0, factory |-> "none",
     disposedAtSettle |-> FALSE]

NewPromise(c) == IF c.workerPool THEN AdoptedPromise(c) ELSE ConstructedPromise(c)

\* A slip: the promise is stored in both fields.
InstallBoth(c) ==
    LET p == Len(proms) + 1
        np == NewPromise(c)
    IN  /\ proms' = Append(proms, np)
        /\ workerPoolPromise' = IF np.kind = "pool" THEN p ELSE modulePromise
        /\ modulePromise' = p
        /\ mq' = IF np.phase = "binary"
                 THEN Append(mq, Callback("binary", NoJob, NoWorker, p))
                 ELSE mq

\* initialize past its guard: the promise is stored in its field.
Install(c) ==
    LET p == Len(proms) + 1
        np == NewPromise(c)
    IN  /\ proms' = Append(proms, np)
        /\ workerPoolPromise' = IF np.kind = "pool" THEN p ELSE NoPromise
        /\ modulePromise' = IF np.kind = "module" THEN p ELSE NoPromise
        /\ mq' = IF np.phase = "binary"
                 THEN Append(mq, Callback("binary", NoJob, NoWorker, p))
                 ELSE mq

\* A slip: when the binary has to be fetched, the promise is not stored
\* before the fetch is awaited.
InitializeStoreAfterFetch(c) ==
    /\ epochInits' = epochInits + 1
    /\ firstConfig' = IF epochInits = 0 THEN << c >> ELSE firstConfig
    /\ IF AlreadyInitialized \/ NewPromise(c).phase = "fetch"
       THEN UNCHANGED <<workerPoolPromise, modulePromise, proms, pools, workers,
                        jobs, mq>>
       ELSE /\ Install(c)
            /\ UNCHANGED <<pools, workers, jobs>>
    /\ UNCHANGED <<env, epoch, strays, buffers>>

\* DracoCodec.initialize, up to its first await.
Initialize(c) ==
    /\ epochInits' = epochInits + 1
    /\ firstConfig' = IF epochInits = 0 THEN << c >> ELSE firstConfig
    /\ IF AlreadyInitialized
       THEN UNCHANGED <<workerPoolPromise, modulePromise, proms, pools, workers,
                        jobs, mq>>
       ELSE /\ Install(c)
            /\ UNCHANGED <<pools, workers, jobs>>
    /\ UNCHANGED <<env, epoch, strays, buffers>>

\* promise.then(cb) on a promise initialize installed.
PromiseThen(p, cb) ==
    /\ proms' = IF proms[p].st = "pending"
                THEN [proms EXCEPT ![p].thens = Append(@, cb)]
                ELSE proms
    /\ mq' = IF proms[p].st = "resolved" THEN Append(mq, cb) ELSE mq

\* The dispose the design describes: a pool the caller supplied is left alone.
DisposeOwnedPool ==
    IF workerPoolPromise # NoPromise /\ proms[workerPoolPromise].pool # ExtPool
    THEN PromiseThen(workerPoolPromise,
                     Callback("teardown", NoJob, NoWorker, workerPoolPromise))
    ELSE UNCHANGED <<proms, mq>>

\* dispose, first half: workerPool.dispose() once the pool promise resolves.
DisposePool ==
    IF workerPoolPromise # NoPromise
    THEN PromiseThen(workerPoolPromise,
                     Callback("teardown", NoJob, NoWorker, workerPoolPromise))
    ELSE UNCHANGED <<proms, mq>>

\* A slip: the worker pool promise is never deleted.
DeleteModulePromiseOnly ==
    /\ workerPoolPromise' = workerPoolPromise
    /\ modulePromise' = NoPromise

\* A slip: the module promise is never deleted.
DeletePoolPromiseOnly ==
    /\ workerPoolPromise' = NoPromise
    /\ modulePromise' = modulePromise

\* dispose, second half: both memoized promises are deleted.
DeletePromises ==
    /\ workerPoolPromise' = NoPromise
    /\ modulePromise' = NoPromise

\* DracoCodec.dispose
Dispose ==
    /\ epoch' = epoch + 1
    /\ epochInits' = 0
    /\ firstConfig' = << >>
    /\ DisposePool
    /\ DeletePromises
    /\ UNCHANGED <<pools, workers, jobs, env, strays, buffers>>

NewJob(input, p, st, outcome, err) ==
    [input |-> input, prom |-> p, epoch |-> epoch, initialized |-> epochInits > 0,
     afterFailure |-> p # NoPromise /\ proms[p].st = "rejected",
     st |-> st, outcome |-> outcome, err |-> err, response |-> << >>,
     pool |-> ExtPool, worker |-> NoWorker, resultIndices |-> 0,
     resultAttributes |-> << >>, completes |-> 0,
     pushed |-> FALSE, posted |-> FALSE, invoked |-> FALSE,
     sent |-> << >>, transferred |-> ""]

\* A slip: without a memoized promise the call waits instead of failing.
WaitForInitialize(input) ==
    /\ jobs' = Append(jobs, NewJob(input, NoPromise, "waitModule", "pending", ""))
    /\ UNCHANGED <<proms, mq>>

\* The last statement of decodeMeshToMeshDataAsync: throw new Error(...)
ThrowNotAvailable(input) ==
    /\ jobs' = Append(jobs, NewJob(input, NoPromise, "done", "thrown",
                                   "Draco decoder module is not available"))
    /\ UNCHANGED <<proms, mq>>

\* DracoDecoderClass.decodeMeshToMeshDataAsync, the synchronous part.
Decode(input) ==
    /\ LET j == Len(jobs) + 1
       IN  IF workerPoolPromise # NoPromise
           THEN /\ PromiseThen(workerPoolPromise,
                               Callback("push", j, NoWorker, workerPoolPromise))
                /\ jobs' = Append(jobs,
                      IF proms[workerPoolPromise].st = "rejected"
                      THEN NewJob(input, workerPoolPromise, "done", "rejected",
                                  proms[workerPoolPromise].err)
                      ELSE NewJob(input, workerPoolPromise, "waitPool", "pending", ""))
           ELSE IF modulePromise # NoPromise
           THEN /\ PromiseThen(modulePromise,
                               Callback("inproc", j, NoWorker, modulePromise))
                /\ jobs' = Append(jobs,
                      IF proms[modulePromise].st = "rejected"
                      THEN NewJob(input, modulePromise, "done", "rejected",
                                  proms[modulePromise].err)
                      ELSE NewJob(input, modulePromise, "waitModule", "pending", ""))
           ELSE ThrowNotAvailable(input)
    /\ UNCHANGED <<workerPoolPromise, modulePromise, pools, workers, env,
                   epoch, epochInits, firstConfig, strays, buffers>>

\* ------------------------------------------- settling an initialization
Pop == [St EXCEPT !.mq = Tail(mq)]

\* The callback goes on to its next await, a script load; scripts counts
\* the loads started.
SetPhase(p, phase, mqBase) ==
    /\ proms' = [proms EXCEPT ![p].phase = phase,
                              ![p].scripts = IF phase = "script" THEN @ + 1 ELSE @]
    /\ mq' = mqBase
    /\ UNCHANGED jobs

\* The callbacks registered on the promise run in registration order.
ResolvePromise(p, mqBase) ==
    /\ proms' = [proms EXCEPT ![p].st = "resolved", ![p].phase = "settled",
                              ![p].disposedAtSettle = proms[p].epoch < epoch,
                              ![p].thens = << >>]
    /\ mq' = mqBase \o proms[p].thens
    /\ UNCHANGED jobs

\* A slip: the decode calls waiting on the promise are left waiting.
RejectPromiseKeepWaiters(p, err, mqBase) ==
    /\ proms' = [proms EXCEPT ![p].st = "rejected", ![p].phase = "settled",
                              ![p].disposedAtSettle = proms[p].epoch < epoch,
                              ![p].thens = << >>, ![p].err = err]
    /\ mq' = mqBase
    /\ UNCHANGED jobs

\* The promises derived by then() reject with the same error: the decode
\* calls waiting on it are rejected, a waiting teardown never runs.
RejectPromise(p, err, mqBase) ==
    /\ proms' = [proms EXCEPT ![p].st = "rejected", ![p].phase = "settled",
                              ![p].disposedAtSettle = proms[p].epoch < epoch,
                              ![p].thens = << >>, ![p].err = err]
    /\ mq' = mqBase
    /\ jobs' = [k \in DOMAIN jobs |->
                  IF \E i \in DOMAIN proms[p].thens : proms[p].thens[i].j = k
                  THEN [jobs[k] EXCEPT !.outcome = "rejected", !.st = "done", !.err = err]
                  ELSE jobs[k]]

\* DracoDecoderClass._isModuleAvailable
isModuleAvailable(inScope) == inScope

\* A slip: the module in scope is preferred to the one supplied.
ModuleFactoryGlobalFirst(c, inScope) ==
    IF inScope THEN "DracoDecoderModule"
    ELSE IF c.jsModule THEN "jsModule" ELSE "none"

\* (jsModule || DracoDecoderModule): the factory _createModuleAsync calls.
ModuleFactory(c, inScope) ==
    IF c.jsModule THEN "jsModule"
    ELSE IF inScope THEN "DracoDecoderModule" ELSE "none"

\* DracoDecoderClass._createModuleAsync: (jsModule || DracoDecoderModule)({wasmBinary})
createModuleAsync(p, mqBase, inScope) ==
    IF ModuleFactory(proms[p].cfg, inScope) # "none"
    THEN /\ proms' = [proms EXCEPT ![p].phase = "instantiate",
                                   ![p].creates = @ + 1,
                                   ![p].factory = ModuleFactory(proms[p].cfg, inScope)]
         /\ mq' = mqBase
         /\ UNCHANGED jobs
    ELSE RejectPromise(p, "DracoDecoderModule is not defined", mqBase)

\* The callback of wasmBinaryPromise.then in the in-process branch.
ModuleCallback(p, mqBase) ==
    IF isModuleAvailable(env.module)
    THEN IF ~proms[p].cfg.jsModule
         THEN IF proms[p].url = ""
              THEN RejectPromise(p, "Draco codec module is not available", mqBase)
              ELSE SetPhase(p, "script", mqBase)
         ELSE createModuleAsync(p, mqBase, env.module)
    ELSE createModuleAsync(p, mqBase, env.module)

\* A slip: the pool is built one worker too large.
PoolCallbackOneMore(p, mqBase) ==
    /\ pools' = [pools EXCEPT ![proms[p].pool] =
                   [NoPool EXCEPT !.built = TRUE, !.max = proms[p].cfg.numWorkers + 1,
                                  !.bin = proms[p].bin, !.url = proms[p].url]]
    /\ ResolvePromise(p, mqBase)

\* A slip: the worker factory forgets the binary.
PoolCallbackNoBinary(p, mqBase) ==
    /\ pools' = [pools EXCEPT ![proms[p].pool] =
                   [NoPool EXCEPT !.built = TRUE, !.max = proms[p].cfg.numWorkers,
                                  !.bin = "none", !.url = proms[p].url]]
    /\ ResolvePromise(p, mqBase)

\* The callback of wasmBinaryPromise.then in the worker branch.
PoolCallback(p, mqBase) ==
    /\ pools' = [pools EXCEPT ![proms[p].pool] =
                   [NoPool EXCEPT !.built = TRUE, !.max = proms[p].cfg.numWorkers,
                                  !.bin = proms[p].bin, !.url = proms[p].url]]
    /\ ResolvePromise(p, mqBase)

BinaryReady(p, mqBase) ==
    IF proms[p].kind = "pool"
    THEN PoolCallback(p, mqBase)
    ELSE ModuleCallback(p, mqBase) /\ UNCHANGED pools

\* -------------------------------------------------------------- microtasks
MicrotaskBinary ==
    /\ mq # << >> /\ Head(mq).t = "binary"
    /\ BinaryReady(Head(mq).p, Tail(mq))
    /\ UNCHANGED <<workerPoolPromise, modulePromise, workers, env, epoch, epochInits, firstConfig, strays, buffers>>
    /\ UNCHANGED facadeVars

\* decode's callback on the worker pool promise: workerPool.push(action)
MicrotaskPush ==
    /\ mq # << >> /\ Head(mq).t = "push"
    /\ Commit(PoolPush(Pop, proms[Head(mq).p].pool, Head(mq).j))
    /\ UNCHANGED <<workerPoolPromise, modulePromise, proms, env, epoch, epochInits, firstConfig, strays>>
    /\ UNCHANGED facadeVars

\* dispose's callback on the worker pool promise: workerPool.dispose()
MicrotaskTeardown ==
    /\ mq # << >> /\ Head(mq).t = "teardown"
    /\ Commit(PoolDispose(Pop, proms[Head(mq).p].pool))
    /\ UNCHANGED <<workerPoolPromise, modulePromise, proms, env, epoch, epochInits, firstConfig, strays>>
    /\ UNCHANGED facadeVars

\* the pool's callback on the worker promise: action(worker, onComplete)
MicrotaskExec ==
    /\ mq # << >> /\ Head(mq).t = "exec"
    /\ Commit(DispatchJob(Pop, Head(mq).j, Head(mq).w))
    /\ UNCHANGED <<workerPoolPromise, modulePromise, proms, env, epoch, epochInits, firstConfig, strays>>
    /\ UNCHANGED facadeVars

\* the pool's callback on the worker promise: worker.terminate()
MicrotaskTerminate ==
    /\ mq # << >> /\ Head(mq).t = "terminate"
    /\ Commit([Pop EXCEPT !.workers[Head(mq).w].terminated = TRUE,
                          !.workers[Head(mq).w].wq = << >>])
    /\ UNCHANGED <<workerPoolPromise, modulePromise, proms, env, epoch, epochInits, firstConfig, strays>>
    /\ UNCHANGED facadeVars

\* decode's callback on the module promise
MicrotaskInProcess ==
    /\ mq # << >> /\ Head(mq).t = "inproc"
    /\ Commit(InProcessDecode(Pop, Head(mq).j))
    /\ UNCHANGED <<workerPoolPromise, modulePromise, proms, env, epoch, epochInits, firstConfig, strays>>
    /\ UNCHANGED facadeVars

\* -------------------------------------------------- events (macrotasks)
\* A slip: a failed fetch is started again.
FetchFailedRetry(p, mqBase) ==
    IF proms[p].fetches < 2
    THEN /\ proms' = [proms EXCEPT ![p].fetches = @ + 1]
         /\ mq' = mqBase
         /\ UNCHANGED jobs
    ELSE RejectPromise(p, "LoadFileError", mqBase)

\* Tools.LoadFileAsync rejects: wasmBinaryPromise and the promise derived
\* from it by then() reject with the load error.
FetchFailed(p, mqBase) == RejectPromise(p, "LoadFileError", mqBase)

\* Tools.LoadFileAsync(wasmBinaryUrl) completes.
FetchDone(p, ok) ==
    /\ mq = << >>
    /\ p \in DOMAIN proms /\ proms[p].phase = "fetch"
    /\ IF ok THEN BinaryReady(p, mq)
             ELSE FetchFailed(p, mq) /\ UNCHANGED pools
    /\ UNCHANGED <<workerPoolPromise, modulePromise, workers, env, epoch, epochInits, firstConfig, strays, buffers>>
    /\ UNCHANGED facadeVars

\* Tools.LoadBabylonScriptAsync(codecInfo.url) completes.
ScriptLoaded(p, ok) ==
    /\ mq = << >>
    /\ p \in DOMAIN proms /\ proms[p].phase = "script"
    /\ IF ok THEN /\ env' = [env EXCEPT !.module = TRUE]
                  /\ createModuleAsync(p, mq, TRUE)
             ELSE /\ env' = env
                  /\ RejectPromise(p, "LoadScriptError", mq)
    /\ UNCHANGED <<workerPoolPromise, modulePromise, pools, workers, epoch, epochInits, firstConfig, strays, buffers>>
    /\ UNCHANGED facadeVars

\* The module factory's promise resolves.
ModuleInstantiated(p) ==
    /\ mq = << >>
    /\ p \in DOMAIN proms /\ proms[p].phase = "instantiate"
    /\ ResolvePromise(p, mq)
    /\ UNCHANGED <<workerPoolPromise, modulePromise, pools, workers, env, epoch, epochInits, firstConfig, strays, buffers>>
    /\ UNCHANGED facadeVars

\* The worker answers its bootstrap message: the worker promise resolves.
WorkerReady(w) ==
    /\ mq = << >>
    /\ w \in DOMAIN workers /\ ~workers[w].ready
    /\ workers' = [workers EXCEPT ![w].ready = TRUE, ![w].thens = << >>]
    /\ mq' = workers[w].thens
    /\ UNCHANGED <<workerPoolPromise, modulePromise, proms, pools, jobs, env, epoch,
                   epochInits, firstConfig, strays, buffers>>
    /\ UNCHANGED facadeVars

\* A message event of the worker reaches every listener registered on it,
\* in registration order.
RECURSIVE DeliverMessageTo(_, _, _, _)
DeliverMessageTo(S, listeners, w, message) ==
    IF listeners = << >> THEN S
    ELSE DeliverMessageTo(OnMessage(S, Head(listeners), w, message),
                          Tail(listeners), w, message)

DeliverMessage(S, w, message) ==
    DeliverMessageTo(S, S.workers[w].onMessage, w, message)

RECURSIVE DeliverErrorTo(_, _, _)
DeliverErrorTo(S, listeners, w) ==
    IF listeners = << >> THEN S
    ELSE DeliverErrorTo(OnError(S, Head(listeners), w), Tail(listeners), w)

DeliverError(S, w) == DeliverErrorTo(S, S.workers[w].onError, w)

\* The worker posts the next message of the job it is decoding.
WorkerMessage(w) ==
    /\ mq = << >>
    /\ w \in DOMAIN workers /\ ~workers[w].terminated /\ workers[w].wq # << >>
    /\ Commit(DeliverMessage([St EXCEPT !.workers[w].wq = Tail(@)], w, Head(workers[w].wq)))
    /\ UNCHANGED <<workerPoolPromise, modulePromise, proms, env, epoch, epochInits, firstConfig, strays>>
    /\ UNCHANGED facadeVars

\* The worker fails while decoding: an error event instead of the rest.
WorkerError(w) ==
    /\ mq = << >>
    /\ w \in DOMAIN workers /\ ~workers[w].terminated /\ workers[w].wq # << >>
    /\ Commit(DeliverError([St EXCEPT !.workers[w].wq = << >>], w))
    /\ UNCHANGED <<workerPoolPromise, modulePromise, proms, env, epoch, epochInits, firstConfig, strays>>
    /\ UNCHANGED facadeVars

\* A worker that is decoding nothing emits a further event.
WorkerStray(w, id) ==
    /\ mq = << >>
    /\ w \in DOMAIN workers /\ workers[w].ready /\ ~workers[w].terminated
    /\ workers[w].wq = << >>
    /\ strays' = strays + 1
    /\ Commit(IF id = "error" THEN DeliverError(St, w)
              ELSE DeliverMessage(St, w, Msg(id, "position", 99, FALSE, 99)))
    /\ UNCHANGED <<workerPoolPromise, modulePromise, proms, env, epoch, epochInits, firstConfig>>
    /\ UNCHANGED facadeVars

\* ------------------------------------------------- the codec's life cycle
\* initialize, decode and dispose in every mode; the workers answer each
\* job with its messages.
LifecycleInputs == { input \in DecodeInputs : input.data = 0 }

CallInitialize ==
    \E c \in Configs :
        /\ epochInits < MaxEpochInits
        /\ AlreadyInitialized \/ Len(proms) < MaxInits
        /\ Initialize(c) /\ UNCHANGED facadeVars

CallDispose == epoch < MaxDisposes /\ Dispose /\ UNCHANGED facadeVars

CallDecode == \E input \in LifecycleInputs : Len(jobs) < MaxJobs /\ Decode(input) /\ UNCHANGED facadeVars

EventLoop ==
    \/ MicrotaskBinary
    \/ MicrotaskPush
    \/ MicrotaskTeardown
    \/ MicrotaskExec
    \/ MicrotaskTerminate
    \/ \E p \in DOMAIN proms, ok \in BOOLEAN : FetchDone(p, ok)
    \/ \E w \in DOMAIN workers : WorkerReady(w)
    \/ \E w \in DOMAIN workers : WorkerMessage(w)

ModuleLoop ==
    \/ MicrotaskInProcess
    \/ \E p \in DOMAIN proms, ok \in BOOLEAN : ScriptLoaded(p, ok)
    \/ \E p \in DOMAIN proms : ModuleInstantiated(p)

Next ==
    \/ CallInitialize
    \/ CallDispose
    \/ CallDecode
    \/ EventLoop
    \/ ModuleLoop

Spec == Init /\ [][Next]_vars

\* ------------------------------------------------------ worker-pool dispatch
\* One initialize in a worker-pool mode, then decode jobs, worker failures
\* and stray events, and possibly a dispose.
PoolConfigs == { c \in Configs : c.workerPool \/ c.numWorkers # 0 }

DispatchInit == Init /\ ~env.module

DispatchInitialize == \E c \in PoolConfigs : proms = << >> /\ Initialize(c) /\ UNCHANGED facadeVars

DispatchDispose == epoch = 0 /\ proms # << >> /\ Dispose /\ UNCHANGED facadeVars

DispatchDecode ==
    \E input \in DecodeInputs : proms # << >> /\ Len(jobs) < MaxJobs /\ Decode(input) /\ UNCHANGED facadeVars

WorkerFaults ==
    \/ \E w \in DOMAIN workers : WorkerError(w)
    \/ \E w \in DOMAIN workers, id \in {"error", "decodeMeshDone"} :
          strays < MaxStray /\ WorkerStray(w, id)

DispatchNext ==
    \/ DispatchInitialize
    \/ DispatchDispose
    \/ DispatchDecode
    \/ EventLoop
    \/ WorkerFaults

DispatchSpec == DispatchInit /\ [][DispatchNext]_vars

\* The event loop always runs a pending microtask and delivers a pending
\* event: a fetch completes or fails, a worker posts its next message.
DispatchFairSpec == DispatchSpec /\ WF_vars(EventLoop)

\* ------------------------------------------------------- mode selection
\* One codec in any runtime, initialized with any configuration, then
\* decode calls in whichever mode initialize selected.
ModeConfigs ==
    { Cfg(pool, n, bin, js, wasm, fb) :
        pool \in BOOLEAN, n \in {0, 2}, bin \in BOOLEAN, js \in BOOLEAN,
        wasm \in BOOLEAN, fb \in BOOLEAN }

ModeEnvs ==
    { Env(worker, url, wasm, module, 8) :
        worker \in BOOLEAN, url \in BOOLEAN, wasm \in BOOLEAN, module \in BOOLEAN }

ModeInit == NewCodec /\ env \in ModeEnvs

\* The meshes with attributes, with and without a normalized override.
ModeInputs == { input \in DecodeInputs : input.data # 0 }

ModeInitialize == \E c \in ModeConfigs : epochInits = 0 /\ Initialize(c) /\ UNCHANGED facadeVars

\* A further initialize call, with one of the life cycle's configurations.
ModeReinitialize ==
    \E c \in Configs : epochInits > 0 /\ epochInits < MaxEpochInits /\ Initialize(c) /\ UNCHANGED facadeVars

\* Decode calls made once initialize has been called.
ModeDecode ==
    \E input \in ModeInputs : proms # << >> /\ Len(jobs) < MaxJobs /\ Decode(input) /\ UNCHANGED facadeVars

\* The event loop of a codec that is never disposed.
ModeLoop ==
    \/ MicrotaskBinary
    \/ MicrotaskPush
    \/ MicrotaskExec
    \/ \E p \in DOMAIN proms, ok \in BOOLEAN : FetchDone(p, ok)
    \/ \E w \in DOMAIN workers : WorkerReady(w)
    \/ \E w \in DOMAIN workers : WorkerMessage(w)

ModeNext ==
    \/ ModeInitialize
    \/ ModeReinitialize
    \/ ModeDecode
    \/ ModeLoop
    \/ ModuleLoop

ModeSpec == ModeInit /\ [][ModeNext]_vars

\* ================================================================= claims
CurrentPromises == { p \in DOMAIN proms : proms[p].epoch = epoch }

HeldPromises == {workerPoolPromise, modulePromise} \ {NoPromise}

Settled(j) == jobs[j].outcome # "pending"

HoldsWorker(j) == jobs[j].st \in {"assigned", "inflight"}

MaxWorkersOf(p) ==
    IF proms[p].cfg.workerPool THEN ExtPoolMax ELSE proms[p].cfg.numWorkers

TeardownPending(p) == \E i \in DOMAIN mq : mq[i].t = "teardown" /\ mq[i].p = p

TerminatePending(w) ==
    \/ \E i \in DOMAIN mq : mq[i].t = "terminate" /\ mq[i].w = w
    \/ \E i \in DOMAIN workers[w].thens : workers[w].thens[i].t = "terminate"

CallbackPending(j) ==
    \/ \E i \in DOMAIN mq : mq[i].j = j
    \/ \E p \in DOMAIN proms : \E i \in DOMAIN proms[p].thens : proms[p].thens[i].j = j

\* The response the decode routine's events and the override determine.
ExpectedResponse(input) ==
    LET events == DecodeMeshEvents(input.data)
        attrs == SelectSeq(events, LAMBDA m : m.id = "attribute")
        idx == SelectSeq(events, LAMBDA m : m.id = "indices")
    IN  [indices |-> IF idx = << >> THEN 0 ELSE idx[Len(idx)].data,
         attributes |-> [i \in DOMAIN attrs |->
            [kind |-> attrs[i].kind, data |-> attrs[i].data,
             normalized |-> IF input.ov[attrs[i].kind] = "undefined"
                            THEN attrs[i].normalized
                            ELSE input.ov[attrs[i].kind] = "true"]],
         totalVertices |-> DecodeMeshPoints(input.data)]

\* C1: between two dispose calls, however many initialize calls are made and
\* whenever they are made, exactly one promise is installed, it carries the
\* configuration of the first call, the pool it builds has that
\* configuration's size, and every later call leaves the codec, the pools,
\* the workers, the jobs and the microtask queue as they were.
C1_InitializeOnce ==
    /\ [](epochInits > 0 =>
            /\ Cardinality(CurrentPromises) = 1
            /\ HeldPromises = CurrentPromises
            /\ \A p \in CurrentPromises :
                  /\ proms[p].cfg = firstConfig[1]
                  /\ (proms[p].kind = "pool" /\ proms[p].st = "resolved"
                        /\ ~proms[p].cfg.workerPool)
                     => pools[proms[p].pool].max = firstConfig[1].numWorkers)
    /\ [][(epochInits > 0 /\ epochInits' > epochInits)
            => UNCHANGED <<workerPoolPromise, modulePromise, proms, pools, workers,
                           jobs, mq>>]_vars

C1_Witness ==
    /\ epochInits >= 2
    /\ \E p \in CurrentPromises : proms[p].st = "pending" /\ proms[p].phase = "fetch"

\* C2: for every worker-pool promise, the jobs that hold a worker of its pool
\* (taken by the pool and not yet released) never number more than the
\* pool's worker count.
C2_AtMostNumWorkersInFlight ==
    \A p \in DOMAIN proms :
        proms[p].kind = "pool" =>
            Cardinality({ j \in DOMAIN jobs : jobs[j].prom = p /\ HoldsWorker(j) })
                <= MaxWorkersOf(p)

C2_Witness ==
    \E p \in DOMAIN proms :
        /\ ~proms[p].cfg.workerPool
        /\ Cardinality({ j \in DOMAIN jobs : jobs[j].prom = p /\ jobs[j].st = "inflight" })
              = proms[p].cfg.numWorkers
        /\ \E j \in DOMAIN jobs : jobs[j].prom = p /\ jobs[j].st = "queued"

\* C3: a job posted to a worker calls onComplete at most once; it has called
\* it exactly once when its promise is settled, and never before.
C3_ReleasedExactlyOnce ==
    \A j \in DOMAIN jobs :
        /\ jobs[j].completes <= 1
        /\ (jobs[j].posted /\ Settled(j)) => jobs[j].completes = 1
        /\ jobs[j].completes >= 1 => (jobs[j].posted /\ Settled(j))

C3_Witness ==
    /\ strays >= 1
    /\ \E j \in DOMAIN jobs : jobs[j].outcome = "rejected" /\ jobs[j].completes = 1
    /\ \E j \in DOMAIN jobs : jobs[j].outcome = "resolved" /\ jobs[j].completes = 1

AllSettled == jobs # << >> /\ \A j \in DOMAIN jobs : Settled(j)

IdleWorkers(p) == { w \in SeqToSet(pools[p].infos) : workers[w].idle }

\* The job can no longer finish: dispose dropped it from the pool's queue, or
\* terminated (or is about to terminate) the worker it was given.
LostToDispose(j) ==
    \/ jobs[j].st = "dropped"
    \/ /\ jobs[j].worker # NoWorker
       /\ workers[jobs[j].worker].terminated \/ TerminatePending(jobs[j].worker)

C5_ErrorRejectsOnlyItsJob ==
    /\ [](\A j \in DOMAIN jobs :
            /\ (jobs[j].posted /\ jobs[j].outcome = "rejected") =>
                  /\ jobs[j].err = "ErrorEvent"
                  /\ jobs[j].response = << >>
                  /\ jobs[j].completes = 1
            /\ jobs[j].outcome = "resolved" =>
                  jobs[j].response = << ExpectedResponse(jobs[j].input) >>)
    /\ [][\A j \in DOMAIN jobs :
            (jobs[j].posted /\ ~Settled(j) /\ jobs'[j].outcome = "rejected") =>
                \A k \in DOMAIN jobs \ {j} :
                    /\ jobs'[k].outcome = jobs[k].outcome
                    /\ jobs'[k].response = jobs[k].response
                    /\ jobs'[k].resultIndices = jobs[k].resultIndices
                    /\ jobs'[k].resultAttributes = jobs[k].resultAttributes]_vars

C5_Witness ==
    \E j, k \in DOMAIN jobs :
        /\ jobs[j].outcome = "rejected" /\ jobs[j].err = "ErrorEvent"
        /\ jobs[j].resultAttributes # << >>
        /\ jobs[k].outcome = "resolved" /\ jobs[k].response[1].attributes # << >>
        /\ j < k /\ jobs[k].worker = jobs[j].worker

\* C6: a decode call made before any initialize throws the not-available
\* error; its action is never pushed to a pool, nothing is posted to a worker,
\* the module is not invoked and no callback of it is left anywhere.
C6_DecodeBeforeInitializeFails ==
    \A j \in DOMAIN jobs :
        (jobs[j].epoch = 0 /\ ~jobs[j].initialized) =>
            /\ jobs[j].outcome = "thrown"
            /\ jobs[j].err = "Draco decoder module is not available"
            /\ ~jobs[j].pushed /\ ~jobs[j].posted /\ ~jobs[j].invoked
            /\ jobs[j].worker = NoWorker
            /\ ~CallbackPending(j)

C6_Witness ==
    \E j \in DOMAIN jobs :
        /\ jobs[j].epoch = 0 /\ ~jobs[j].initialized /\ jobs[j].outcome = "thrown"
        /\ proms # << >>

\* C7 (as claimed): no decode call ever throws synchronously.
C7_NeverThrowsSynchronously ==
    \A j \in DOMAIN jobs : jobs[j].outcome # "thrown"

\* C8 (as claimed): the pool the caller supplied is never disposed: none of
\* its workers is terminated and none of its queued jobs is dropped.
C8_ExternalPoolNeverDisposed ==
    /\ pools[ExtPool].teardowns = 0
    /\ \A w \in DOMAIN workers : workers[w].pool = ExtPool => ~workers[w].terminated
    /\ \A j \in DOMAIN jobs : jobs[j].pool = ExtPool => jobs[j].st # "dropped"

\* C8 (amended): once dispose has been called on a codec holding a resolved
\* worker pool promise and its callback has run, the pool behind that promise
\* has been disposed, supplied by the caller or not: every worker created for
\* that promise is terminated or about to be, and none of its jobs is queued.
C8_DisposeTearsDownAnyPool ==
    \A p \in DOMAIN proms :
        (/\ proms[p].kind = "pool" /\ proms[p].st = "resolved"
         /\ workerPoolPromise # p /\ ~TeardownPending(p)) =>
            /\ pools[proms[p].pool].teardowns >= 1
            /\ \A w \in DOMAIN workers :
                  workers[w].prom = p => (workers[w].terminated \/ TerminatePending(w))
            /\ \A j \in DOMAIN jobs : jobs[j].prom = p => jobs[j].st # "queued"

C8_Witness ==
    \E p \in DOMAIN proms :
        /\ proms[p].cfg.workerPool
        /\ pools[ExtPool].teardowns >= 1
        /\ \E w \in DOMAIN workers : workers[w].prom = p /\ workers[w].terminated
        /\ \E j \in DOMAIN jobs : jobs[j].prom = p /\ jobs[j].st = "dropped"

C10_DecodeAfterDisposeFails ==
    \A j \in DOMAIN jobs :
        (jobs[j].epoch > 0 /\ ~jobs[j].initialized) =>
            /\ jobs[j].outcome = "thrown"
            /\ jobs[j].err = "Draco decoder module is not available"
            /\ ~jobs[j].pushed /\ ~jobs[j].posted /\ ~jobs[j].invoked
            /\ ~CallbackPending(j)

C10_Witness ==
    \E j \in DOMAIN jobs :
        /\ jobs[j].epoch > 0 /\ ~jobs[j].initialized /\ jobs[j].outcome = "thrown"
        /\ \E p \in DOMAIN proms : proms[p].kind = "module" /\ proms[p].st = "resolved"

\* The attribute events the decode routine reports for the input.
StreamAttributes(input) ==
    SelectSeq(DecodeMeshEvents(input.data), LAMBDA m : m.id = "attribute")

\* C11 (as claimed): in every response, through the pool or in-process, an
\* attribute whose kind has an override carries the override as its
\* normalized flag, and any other attribute carries the stream's flag.
C11_OverrideWinsOnBothPaths ==
    \A j \in DOMAIN jobs :
        jobs[j].outcome = "resolved" =>
            LET attrs == jobs[j].response[1].attributes
                stream == StreamAttributes(jobs[j].input)
            IN  /\ Len(attrs) = Len(stream)
                /\ \A i \in DOMAIN attrs :
                      attrs[i].normalized =
                          IF jobs[j].input.ov[stream[i].kind] # "undefined"
                          THEN jobs[j].input.ov[stream[i].kind] = "true"
                          ELSE stream[i].normalized

\* C12 (as claimed): a decode that resolves in-process returns the very
\* response the worker-pool path assembles for the same call.
C12_InProcessEqualsPoolPath ==
    \A j \in DOMAIN jobs :
        (jobs[j].outcome = "resolved" /\ jobs[j].invoked) =>
            jobs[j].response = << ExpectedResponse(jobs[j].input) >>

\* C13: a promise installed for a configuration that carries a worker pool
\* is resolved from the start with exactly that pool, whatever else the
\* configuration carries: no fetch, no script load and no module factory
\* call is started for it, no pool is constructed, the module promise stays
\* unset, and every decode is pushed to the supplied pool and served by a
\* worker of that pool.
C13_ExternalPoolAdopted ==
    \A p \in DOMAIN proms :
        proms[p].cfg.workerPool =>
            /\ proms[p].kind = "pool" /\ proms[p].st = "resolved"
            /\ proms[p].pool = ExtPool
            /\ proms[p].fetches = 0 /\ proms[p].scripts = 0 /\ proms[p].creates = 0
            /\ workerPoolPromise = p /\ modulePromise = NoPromise
            /\ \A q \in PoolIds \ {ExtPool} : ~pools[q].built
            /\ \A j \in DOMAIN jobs :
                  jobs[j].prom = p =>
                      /\ ~jobs[j].invoked
                      /\ jobs[j].pushed => jobs[j].pool = ExtPool
                      /\ jobs[j].worker # NoWorker =>
                            workers[jobs[j].worker].pool = ExtPool
            /\ \A w \in DOMAIN workers :
                  /\ workers[w].pool = ExtPool
                  /\ \E j \in DOMAIN jobs : jobs[j].pushed /\ jobs[j].worker = w

C13_Witness ==
    \E p \in DOMAIN proms :
        /\ proms[p].cfg.workerPool
        /\ proms[p].cfg.numWorkers = 0 /\ proms[p].cfg.jsModule
        /\ ~proms[p].cfg.wasmBinary /\ proms[p].cfg.wasmUrls /\ env.wasm
        /\ \E j \in DOMAIN jobs :
              jobs[j].prom = p /\ jobs[j].outcome = "resolved" /\ jobs[j].posted

\* C14 (as claimed): a configuration with numWorkers = 0 always gives an
\* in-process codec, and none of its decodes is pushed to a pool.
C14_ZeroWorkersInProcess ==
    \A p \in DOMAIN proms :
        proms[p].cfg.numWorkers = 0 =>
            /\ proms[p].kind = "module"
            /\ \A j \in DOMAIN jobs : jobs[j].prom = p => ~jobs[j].pushed

\* C14 (amended): a configuration with numWorkers = 0 and no worker pool
\* gives an in-process codec: the module promise is installed, no worker
\* pool promise exists, no worker is ever created and no decode is pushed
\* or posted to one.
C14_ZeroWorkersNoPoolInProcess ==
    \A p \in DOMAIN proms :
        (proms[p].cfg.numWorkers = 0 /\ ~proms[p].cfg.workerPool) =>
            /\ proms[p].kind = "module"
            /\ modulePromise = p /\ workerPoolPromise = NoPromise
            /\ workers = << >>
            /\ \A j \in DOMAIN jobs :
                  ~jobs[j].pushed /\ ~jobs[j].posted /\ jobs[j].worker = NoWorker

C14_Witness ==
    \E p \in DOMAIN proms :
        /\ proms[p].cfg.numWorkers = 0 /\ ~proms[p].cfg.workerPool
        /\ env.worker /\ env.url
        /\ \E j \in DOMAIN jobs :
              jobs[j].prom = p /\ jobs[j].outcome = "resolved" /\ jobs[j].invoked

\* C15: without a supplied pool, the installed promise is the worker pool
\* promise exactly when numWorkers is non-zero and the runtime has both
\* Worker and URL, and the module promise otherwise; no later step, a
\* further initialize call included, changes which of the two it is.
C15_ModeSelection ==
    /\ [](\A p \in DOMAIN proms :
            ~proms[p].cfg.workerPool =>
                /\ proms[p].kind = "pool" <=>
                      (proms[p].cfg.numWorkers # 0 /\ env.worker /\ env.url)
                /\ proms[p].kind = "module" <=>
                      ~(proms[p].cfg.numWorkers # 0 /\ env.worker /\ env.url)
                /\ proms[p].kind = "pool" =>
                      (workerPoolPromise = p /\ modulePromise = NoPromise)
                /\ proms[p].kind = "module" =>
                      (modulePromise = p /\ workerPoolPromise = NoPromise))
    /\ [][\A p \in DOMAIN proms :
            /\ proms'[p].kind = proms[p].kind
            /\ epoch' = epoch =>
                  (workerPoolPromise' = workerPoolPromise /\ modulePromise' = modulePromise)]_vars

C15_Witness ==
    /\ epochInits >= 2
    /\ env.worker /\ ~env.url
    /\ \E p \in DOMAIN proms :
          /\ ~proms[p].cfg.workerPool /\ proms[p].cfg.numWorkers # 0
          /\ proms[p].kind = "module" /\ proms[p].st = "resolved"

\* The promise an installing initialize call returns: the call awaits the
\* promise it has just stored.
InitializeResult(p) == proms[p].st

LoadErrors == {"LoadFileError", "LoadScriptError"}

\* C16: the binary fetch and the script load are each started at most once
\* for a promise; when one of them fails, the promise the initialize call
\* awaits is rejected with that failure, and a rejected promise never
\* changes again: no further fetch, load or construction is started for it.
C16_LoadFailureRejectsOnce ==
    /\ [](\A p \in DOMAIN proms :
            /\ proms[p].fetches <= 1 /\ proms[p].scripts <= 1
            /\ proms[p].phase \in {"fetch", "script"} => proms[p].st = "pending"
            /\ proms[p].err \in LoadErrors =>
                  (InitializeResult(p) = "rejected" /\ proms[p].phase = "settled"))
    /\ [][\A p \in DOMAIN proms :
            proms[p].st = "rejected" => proms'[p] = proms[p]]_vars

C16_Witness ==
    /\ \E p \in DOMAIN proms :
          proms[p].err = "LoadFileError" /\ proms[p].fetches = 1
    /\ \E p \in DOMAIN proms :
          proms[p].err = "LoadScriptError" /\ proms[p].scripts = 1

\* C17: a decode that chains on a promise whose initialization failed is
\* rejected with the initialization's error, whether it was called before or
\* after the failure; nothing of it is pushed to a pool, posted to a worker
\* or decoded, and no callback of it is left anywhere.
C17_DecodeAfterFailedInitialize ==
    \A j \in DOMAIN jobs :
        /\ (jobs[j].prom # NoPromise /\ proms[jobs[j].prom].st = "rejected") =>
              /\ jobs[j].outcome = "rejected"
              /\ jobs[j].err = proms[jobs[j].prom].err
              /\ ~jobs[j].pushed /\ ~jobs[j].posted /\ ~jobs[j].invoked
              /\ jobs[j].response = << >>
              /\ ~CallbackPending(j)
        /\ jobs[j].afterFailure => proms[jobs[j].prom].st = "rejected"

C17_Witness ==
    \E j, k \in DOMAIN jobs :
        /\ jobs[j].prom = jobs[k].prom /\ j < k
        /\ ~jobs[j].afterFailure /\ jobs[j].outcome = "rejected"
        /\ jobs[k].afterFailure /\ jobs[k].outcome = "rejected"
        /\ jobs[k].initialized /\ epochInits >= 2

\* C18 (as claimed): an initialize call made while the codec holds a promise
\* whose initialization failed installs a new promise.
C18_RetryStartsNewAttempt ==
    [][((\E p \in HeldPromises : proms[p].st = "rejected") /\ epochInits' > epochInits)
          => Len(proms') > Len(proms)]_vars

\* C19 (as claimed): in-process, a script load is pending only when the
\* module is not in scope and none was supplied; and when the module is not
\* in scope, none was supplied and a script URL exists, the callback has
\* started a script load; a supplied module is never preceded by a load.
C19_ScriptLoadIffModuleMissing ==
    \A p \in DOMAIN proms :
        proms[p].kind = "module" =>
            /\ proms[p].phase = "script" => (~env.module /\ ~proms[p].cfg.jsModule)
            /\ proms[p].cfg.jsModule => proms[p].scripts = 0
            /\ (/\ ~env.module /\ ~proms[p].cfg.jsModule /\ proms[p].url # ""
                /\ proms[p].phase \notin {"fetch", "binary"}
                /\ proms[p].err # "LoadFileError") => proms[p].scripts = 1

\* C20 (as claimed): in-process, with no script URL, no supplied module and
\* the module not in scope, the initialization is rejected with the
\* module-unavailable error and the module factory is never reached.
C20_NoUrlNoModuleFails ==
    \A p \in DOMAIN proms :
        (/\ proms[p].kind = "module" /\ proms[p].url = ""
         /\ ~proms[p].cfg.jsModule /\ ~env.module
         /\ proms[p].phase \notin {"fetch", "binary"}
         /\ proms[p].err # "LoadFileError") =>
            /\ proms[p].st = "rejected"
            /\ proms[p].err = "Draco codec module is not available"
            /\ proms[p].creates = 0

IsPrefix(a, b) == Len(a) <= Len(b) /\ \A i \in DOMAIN a : a[i] = b[i]

\* C28: a job that went through a worker and resolved carries one attribute
\* per attribute event of the worker's reply to it, in emission order and
\* with the event's kind and data, the data of the reply's indices event
\* (nothing when there is none), and the totalVertices of decodeMeshDone.
C28_ResponseIsTheWorkersReply ==
    \A j \in DOMAIN jobs :
        (jobs[j].posted /\ jobs[j].outcome = "resolved") =>
            LET reply == WorkerScript(jobs[j].input.data)
                attrs == SelectSeq(reply, LAMBDA m : m.id = "attribute")
                idx == SelectSeq(reply, LAMBDA m : m.id = "indices")
                r == jobs[j].response[1]
            IN  /\ Len(r.attributes) = Len(attrs)
                /\ \A i \in DOMAIN attrs :
                      /\ r.attributes[i].kind = attrs[i].kind
                      /\ r.attributes[i].data = attrs[i].data
                /\ r.indices = IF idx = << >> THEN 0 ELSE idx[1].data
                /\ r.totalVertices = reply[Len(reply)].totalVertices

C28_Witness ==
    \E j, k \in DOMAIN jobs :
        /\ jobs[j].posted /\ jobs[j].outcome = "resolved"
        /\ jobs[j].response[1].indices # 0
        /\ jobs[k].posted /\ jobs[k].outcome = "resolved"
        /\ Len(jobs[k].response[1].attributes) = 2
        /\ jobs[k].response[1].indices = 0

\* C29: a job given to a worker has no response while it is pending; the
\* step that resolves it consumes the worker's decodeMeshDone, the step
\* that rejects it is a worker error; and once settled, its outcome, its
\* response and its error never change.
C29_SettledOnceAtTerminalEvent ==
    /\ [](\A j \in DOMAIN jobs :
            jobs[j].outcome = "pending" => jobs[j].response = << >>)
    /\ [][\A j \in DOMAIN jobs :
            /\ Settled(j) =>
                  /\ jobs'[j].outcome = jobs[j].outcome
                  /\ jobs'[j].response = jobs[j].response
                  /\ jobs'[j].err = jobs[j].err
            /\ (jobs[j].posted /\ ~Settled(j) /\ jobs'[j].outcome = "resolved") =>
                  /\ workers[jobs[j].worker].wq # << >>
                  /\ Head(workers[jobs[j].worker].wq).id = "decodeMeshDone"
            /\ (jobs[j].posted /\ ~Settled(j) /\ jobs'[j].outcome = "rejected") =>
                  jobs'[j].err = "ErrorEvent"]_vars

C29_Witness ==
    /\ strays >= 1
    /\ \E j \in DOMAIN jobs :
          /\ jobs[j].posted /\ jobs[j].outcome = "pending"
          /\ jobs[j].resultAttributes # << >>
    /\ \E j \in DOMAIN jobs : jobs[j].posted /\ jobs[j].outcome = "resolved"

\* C30: a worker is held by at most one job, at most one job listens on a
\* worker and it is the job in flight on it, and what a job has accumulated
\* is always a prefix of the reply to its own input: no event of another
\* job, earlier or later on the same worker, is ever added to it.
C30_OneJobPerWorker ==
    /\ \A w \in DOMAIN workers :
          /\ Cardinality({ j \in DOMAIN jobs : HoldsWorker(j) /\ jobs[j].worker = w }) <= 1
          /\ Len(workers[w].onMessage) <= 1
          /\ workers[w].onError = workers[w].onMessage
          /\ \A i \in DOMAIN workers[w].onMessage :
                LET j == workers[w].onMessage[i]
                IN  jobs[j].st = "inflight" /\ jobs[j].worker = w
    /\ \A j \in DOMAIN jobs :
          /\ IsPrefix(jobs[j].resultAttributes, ExpectedResponse(jobs[j].input).attributes)
          /\ jobs[j].resultIndices \in {0, ExpectedResponse(jobs[j].input).indices}

C30_Witness ==
    \E j, k \in DOMAIN jobs :
        /\ j # k /\ jobs[j].worker = jobs[k].worker
        /\ jobs[j].input # jobs[k].input
        /\ jobs[j].outcome = "resolved" /\ jobs[j].resultAttributes # << >>
        /\ jobs[k].st = "inflight" /\ jobs[k].resultAttributes # << >>

\* The binary a promise's workers or in-process module are bootstrapped
\* with: the wasmBinary argument of initializeWebWorker and _createModuleAsync.
BootstrapBinary(p) == proms[p].bin

\* The workers created for the decode calls made on promise p.
WorkersOf(p) == { w \in DOMAIN workers : workers[w].prom = p }

\* C25 as stated: with wasmBinary supplied and no pool supplied, nothing is
\* fetched and every worker or module is bootstrapped with the supplied bytes.
C25_SuppliedBytesAlwaysUsed ==
    \A p \in DOMAIN proms :
        (proms[p].cfg.wasmBinary /\ ~proms[p].cfg.workerPool) =>
            /\ proms[p].fetches = 0
            /\ BootstrapBinary(p) = "provided"
            /\ \A w \in WorkersOf(p) : workers[w].bin = "provided"

\* C25: with wasmBinary supplied, initialize never fetches wasmBinaryUrl;
\* without a supplied pool, the workers and the in-process module are
\* bootstrapped with exactly the supplied bytes when wasmUrl and
\* wasmBinaryUrl are configured and the runtime has WebAssembly, and with
\* no binary at all otherwise.
C25_SuppliedBytesNeverFetched ==
    \A p \in DOMAIN proms :
        proms[p].cfg.wasmBinary =>
            /\ proms[p].fetches = 0
            /\ proms[p].phase # "fetch"
            /\ ~proms[p].cfg.workerPool =>
                  LET used == IF proms[p].cfg.wasmUrls /\ env.wasm
                              THEN "provided" ELSE "none"
                  IN  /\ BootstrapBinary(p) = used
                      /\ pools[proms[p].pool].built /\ proms[p].kind = "pool" =>
                            pools[proms[p].pool].bin = used
                      /\ \A w \in WorkersOf(p) : workers[w].bin = used

C25_Witness ==
    \E p \in DOMAIN proms, w \in DOMAIN workers, j \in DOMAIN jobs :
        /\ proms[p].cfg.wasmBinary /\ ~proms[p].cfg.workerPool
        /\ proms[p].cfg.wasmUrls /\ env.wasm
        /\ proms[p].st = "resolved"
        /\ workers[w].prom = p /\ workers[w].ready /\ workers[w].bin = "provided"
        /\ jobs[j].prom = p /\ jobs[j].outcome = "resolved"

GetDefaultNumWorkersUncapped ==
    IF env.hardwareConcurrency = 0 THEN 1 ELSE env.hardwareConcurrency \div 2

\* _GetDefaultNumWorkers: Math.floor(hardwareConcurrency * 0.5) capped at 4,
\* 1 without navigator or without a processor count.
GetDefaultNumWorkers ==
    IF env.hardwareConcurrency = 0 THEN 1
    ELSE IF env.hardwareConcurrency \div 2 < 4
         THEN env.hardwareConcurrency \div 2 ELSE 4

\* DracoCompression.DefaultNumWorkers
DefaultNumWorkers == GetDefaultNumWorkers

\* What a caller passes as configuration: numWorkers may be left out.
Options(has, n, bin) == [hasNumWorkers |-> has, numWorkers |-> n, wasmBinary |-> bin]

FacadeOptions ==
    { Options(FALSE, 0, FALSE), Options(TRUE, 0, FALSE), Options(TRUE, 2, TRUE) }

\* new DracoCompression(): numWorkersOrConfig defaults to DefaultNumWorkers.
ConstructorOptions == Options(TRUE, DefaultNumWorkers, FALSE)

\* { numWorkers: _GetDefaultNumWorkers(), ...this._defaultConfig, ..._config }
\* over DefaultDecoderConfig, which sets the three URLs.
MergeConfig(o) ==
    Cfg(FALSE, IF o.hasNumWorkers THEN o.numWorkers ELSE GetDefaultNumWorkers,
        o.wasmBinary, FALSE, TRUE, TRUE)

\* The memoized promises that are still pending.
InFlight == { p \in {workerPoolPromise, modulePromise} \ {NoPromise} :
                proms[p].st = "pending" }

\* One call through the facade and what it returned: the instance, or the
\* promise the async function awaits before it returns (NoPromise: none).
Call(op, inst, constructed, disposed, options, awaits) ==
    [op |-> op, inst |-> inst, constructed |-> constructed, disposed |-> disposed,
     options |-> options, awaits |-> awaits, inFlight |-> InFlight,
     held |-> {workerPoolPromise, modulePromise} \ {NoPromise},
     installed |-> Len(proms), decodes |-> Len(jobs)]

\* The state of the promise an async call returned.
CallState(k) ==
    IF calls[k].awaits = NoPromise THEN "resolved" ELSE proms[calls[k].awaits].st

\* The constructor: super(), then this.initialize(mergedConfig) on the new
\* object, whose promise fields are still undefined.
Construct(o) ==
    /\ Install(MergeConfig(o))
    /\ instances' = Append(instances, [options |-> o, prom |-> Len(proms) + 1])
    /\ epochInits' = 1
    /\ firstConfig' = << MergeConfig(o) >>
    /\ UNCHANGED <<pools, workers, jobs, env, epoch, strays, buffers>>

\* A slip: the getter constructs on every read.
DefaultAlwaysNull == TRUE

\* The test of `_Default ??= ...`
DefaultIsNull == Default = 0

\* static get Default
FacadeGetDefault ==
    /\ Len(calls) < MaxCalls
    /\ IF DefaultIsNull
       THEN /\ Len(proms) < MaxInits
            /\ Construct(ConstructorOptions)
            /\ Default' = Len(instances) + 1
            /\ calls' = Append(calls, Call("Default", Len(instances) + 1, TRUE, FALSE,
                                            ConstructorOptions, NoPromise))
       ELSE /\ calls' = Append(calls, Call("Default", Default, FALSE, FALSE,
                                            ConstructorOptions, NoPromise))
            /\ UNCHANGED <<workerPoolPromise, modulePromise, proms, pools, workers,
                           jobs, mq, env, epoch, epochInits, firstConfig, strays, buffers,
                           Default, instances>>

\* A slip: the removed instance is disposed whatever the argument.
ResetAlwaysDisposes(skipDispose) == TRUE

\* if (!skipDispose)
ResetDisposes(skipDispose) == ~skipDispose

\* static ResetDefault(skipDispose)
FacadeResetDefault(skipDispose) ==
    /\ Len(calls) < MaxCalls
    /\ IF Default # 0
       THEN /\ IF ResetDisposes(skipDispose)
               THEN Dispose
               ELSE UNCHANGED <<workerPoolPromise, modulePromise, proms, pools,
                                workers, jobs, mq, env, epoch, epochInits,
                                firstConfig, strays, buffers>>
            /\ Default' = 0
            /\ calls' = Append(calls, Call("ResetDefault", Default, FALSE,
                                            ResetDisposes(skipDispose),
                                            Options(FALSE, 0, skipDispose), NoPromise))
       ELSE /\ calls' = Append(calls, Call("ResetDefault", 0, FALSE, FALSE,
                                            Options(FALSE, 0, skipDispose), NoPromise))
            /\ UNCHANGED <<workerPoolPromise, modulePromise, proms, pools, workers,
                           jobs, mq, env, epoch, epochInits, firstConfig, strays, buffers,
                           Default>>
    /\ UNCHANGED instances

\* A slip: only the module promise is awaited.
WhenReadyAwaitsModuleOnly == modulePromise

\* whenReadyAsync: await the worker pool promise, else the module promise.
WhenReadyAwaits ==
    IF workerPoolPromise # NoPromise THEN workerPoolPromise ELSE modulePromise

\* DracoCompression.Default.whenReadyAsync()
FacadeWhenReady ==
    /\ Len(calls) < MaxCalls
    /\ Default # 0
    /\ calls' = Append(calls, Call("whenReadyAsync", Default, FALSE, FALSE,
                                    ConstructorOptions, WhenReadyAwaits))
    /\ UNCHANGED <<workerPoolPromise, modulePromise, proms, pools, workers, jobs, mq,
                   env, epoch, epochInits, firstConfig, strays, buffers, Default, instances>>

\* What an initialize call awaits before it returns: nothing when it
\* returns at the guard or adopts a pool, else the promise it stored.
InitializeAwaits(c) ==
    IF AlreadyInitialized \/ c.workerPool THEN NoPromise ELSE Len(proms) + 1

\* DracoCompression.Default.initialize(config)
FacadeInitialize(o) ==
    /\ Len(calls) < MaxCalls
    /\ Default # 0
    /\ AlreadyInitialized \/ Len(proms) < MaxInits
    /\ Initialize(MergeConfig(o))
    /\ calls' = Append(calls, Call("initialize", Default, FALSE, FALSE, o,
                                    InitializeAwaits(MergeConfig(o))))
    /\ UNCHANGED <<Default, instances>>

\* DracoCompression.Default.dispose()
FacadeDispose ==
    /\ Len(calls) < MaxCalls
    /\ Default # 0
    /\ Dispose
    /\ calls' = Append(calls, Call("dispose", Default, FALSE, TRUE,
                                    ConstructorOptions, NoPromise))
    /\ UNCHANGED <<Default, instances>>

\* The event loop of the default instance: no decode call is made.
FacadeLoop ==
    \/ MicrotaskBinary
    \/ MicrotaskTeardown
    \/ \E p \in DOMAIN proms, ok \in BOOLEAN : FetchDone(p, ok)
    \/ \E p \in DOMAIN proms, ok \in BOOLEAN : ScriptLoaded(p, ok)
    \/ \E p \in DOMAIN proms : ModuleInstantiated(p)

\* A browser with DracoDecoderModule in scope and any processor count.
FacadeInit ==
    NewCodec /\ env \in { Env(TRUE, TRUE, TRUE, TRUE, cores) : cores \in 0..MaxCores }

FacadeNext ==
    \/ FacadeGetDefault
    \/ \E skipDispose \in BOOLEAN : FacadeResetDefault(skipDispose)
    \/ FacadeWhenReady
    \/ \E o \in FacadeOptions : FacadeInitialize(o)
    \/ FacadeDispose
    \/ FacadeLoop

FacadeSpec == FacadeInit /\ [][FacadeNext]_vars

\* C21 (as claimed): the promise a redundant initialize call returns while
\* an initialization is in flight does not resolve before that
\* initialization has completed.
C21_RedundantInitializeAwaitsInFlight ==
    \A k \in DOMAIN calls :
        (calls[k].op = "initialize" /\ calls[k].inFlight # {}) =>
            \A m \in calls[k].inFlight :
                CallState(k) = "resolved" => proms[m].st # "pending"

\* C22: the promise of a whenReadyAsync call made while an initialization
\* is in flight is pending while the memoized promise of that
\* initialization is pending, resolved only once it has resolved, and
\* rejected once it has rejected.
C22_WhenReadyFollowsInFlight ==
    \A k \in DOMAIN calls :
        calls[k].op = "whenReadyAsync" =>
            \A m \in calls[k].inFlight :
                /\ CallState(k) = "resolved" => proms[m].st = "resolved"
                /\ proms[m].st = "rejected" => CallState(k) = "rejected"
                /\ proms[m].st = "pending" => CallState(k) = "pending"

C22_Witness ==
    \E k \in DOMAIN calls, m \in DOMAIN proms :
        /\ calls[k].op = "whenReadyAsync" /\ m \in calls[k].inFlight
        /\ proms[m].kind = "pool" /\ proms[m].st = "rejected"
        /\ CallState(k) = "rejected"

\* The reads of Default in the history, and the calls between two of them.
DefaultReads == { k \in DOMAIN calls : calls[k].op = "Default" }

NoResetBetween(i, j) ==
    \A k \in DOMAIN calls : (i < k /\ k < j) => calls[k].op # "ResetDefault"

\* C23: two reads of Default with no ResetDefault call between them return
\* the same instance, and only the first read after a reset (or the first
\* read ever) constructs: a constructing read adds one instance holding
\* one newly installed promise, any other read changes nothing.
C23_DefaultConstructedOnce ==
    /\ [](\A i, j \in DefaultReads :
            (i < j /\ NoResetBetween(i, j)) =>
                (calls[i].inst = calls[j].inst /\ ~calls[j].constructed))
    /\ [](\A i \in DefaultReads :
            /\ calls[i].inst \in DOMAIN instances
            /\ calls[i].constructed =>
                  /\ \A k \in DOMAIN calls : k < i => calls[k].inst # calls[i].inst
                  /\ instances[calls[i].inst].prom = calls[i].installed + 1)
    /\ [](\A a, b \in DOMAIN instances : a # b => instances[a].prom # instances[b].prom)
    /\ [][(Len(calls') = Len(calls) + 1 /\ calls'[Len(calls')].op = "Default") =>
            IF calls'[Len(calls')].constructed
            THEN /\ Default = 0 /\ Default' = Len(instances) + 1
                 /\ Len(instances') = Len(instances) + 1
                 /\ Len(proms') = Len(proms) + 1
                 /\ {workerPoolPromise', modulePromise'} \ {NoPromise} = {Len(proms')}
            ELSE /\ Default # 0 /\ calls'[Len(calls')].inst = Default
                 /\ UNCHANGED <<Default, instances, workerPoolPromise, modulePromise,
                                proms, mq>>]_vars

C23_Witness ==
    \E i, j \in DefaultReads, k \in DOMAIN calls :
        /\ i < j /\ j < k /\ NoResetBetween(i, j)
        /\ calls[i].constructed /\ calls[j].inst = calls[i].inst
        /\ calls[k].op = "ResetDefault"

\* C24: a ResetDefault call that finds a default instance sets _Default to
\* null and calls dispose on the instance exactly when skipDispose is not
\* true (dispose deletes the memoized promises and registers the teardown
\* of the pool; without it the instance keeps its promises and no teardown
\* is registered); the next read of Default constructs a new instance; a
\* ResetDefault call that finds no default instance changes nothing.
C24_ResetDefaultDropsAndDisposes ==
    /\ [][(Len(calls') = Len(calls) + 1 /\ calls'[Len(calls')].op = "ResetDefault") =>
            LET skipDispose == calls'[Len(calls')].options.wasmBinary
            IN  /\ Default' = 0
                /\ instances' = instances
                /\ Len(proms') = Len(proms)
                /\ IF Default = 0
                   THEN UNCHANGED <<workerPoolPromise, modulePromise, proms, pools,
                                    workers, mq, epoch>>
                   ELSE IF skipDispose
                   THEN UNCHANGED <<workerPoolPromise, modulePromise, proms, pools,
                                    workers, mq, epoch>>
                   ELSE /\ workerPoolPromise' = NoPromise /\ modulePromise' = NoPromise
                        /\ epoch' = epoch + 1
                        /\ (workerPoolPromise # NoPromise
                             /\ proms[workerPoolPromise].st # "rejected") =>
                               \/ \E i \in DOMAIN proms'[workerPoolPromise].thens :
                                     proms'[workerPoolPromise].thens[i].t = "teardown"
                               \/ \E i \in DOMAIN mq' :
                                     /\ mq'[i].t = "teardown"
                                     /\ mq'[i].p = workerPoolPromise]_vars
    /\ [](\A i \in DefaultReads, k \in DOMAIN calls :
            (k < i /\ calls[k].op = "ResetDefault" /\ calls[k].inst # 0
             /\ NoResetBetween(k, i)
             /\ \A r \in DefaultReads : ~(k < r /\ r < i)) =>
                (calls[i].constructed /\ calls[i].inst # calls[k].inst))

C24_Witness ==
    \E a, b, c \in DOMAIN calls :
        /\ a < b /\ b < c
        /\ calls[a].op = "Default" /\ calls[a].constructed
        /\ calls[b].op = "ResetDefault" /\ calls[b].inst = calls[a].inst
        /\ calls[b].options.wasmBinary /\ ~calls[b].disposed
        /\ calls[c].op = "Default" /\ calls[c].constructed
        /\ calls[c].inst # calls[a].inst

\* min(floor(n x 0.5), 4): the largest count up to 4 whose double is at most n.
HalfCappedAtFour(n) ==
    CHOOSE w \in 0..4 : 2 * w <= n /\ (w = 4 \/ 2 * (w + 1) > n)

\* The calls that installed a promise without the caller setting numWorkers.
UnsetInstalls ==
    { k \in DOMAIN calls :
        \/ calls[k].op = "Default" /\ calls[k].constructed
        \/ /\ calls[k].op = "initialize" /\ calls[k].held = {}
           /\ ~calls[k].options.hasNumWorkers }

\* C27: the default worker count is min(floor(hardwareConcurrency x 0.5), 4)
\* when the processor count is known and 1 when it is not, and an
\* initialization whose caller did not set numWorkers uses it: it is the
\* numWorkers of the merged configuration, it decides between worker and
\* in-process mode, and it is the size of the pool that is built.
C27_DefaultNumWorkers ==
    /\ GetDefaultNumWorkers =
          (IF env.hardwareConcurrency = 0 THEN 1
           ELSE HalfCappedAtFour(env.hardwareConcurrency))
    /\ DefaultNumWorkers = GetDefaultNumWorkers
    /\ \A k \in UnsetInstalls :
          LET p == calls[k].installed + 1
              n == IF env.hardwareConcurrency = 0 THEN 1
                   ELSE HalfCappedAtFour(env.hardwareConcurrency)
          IN  /\ p \in DOMAIN proms
              /\ proms[p].cfg.numWorkers = n
              /\ proms[p].kind = (IF n # 0 THEN "pool" ELSE "module")
              /\ (proms[p].kind = "pool" /\ pools[proms[p].pool].built) =>
                    pools[proms[p].pool].max = n

C27_Witness ==
    /\ env.hardwareConcurrency >= 8
    /\ \E k \in UnsetInstalls :
          /\ calls[k].op = "initialize"
          /\ proms[calls[k].installed + 1].st = "resolved"
          /\ pools[proms[calls[k].installed + 1].pool].built
          /\ pools[proms[calls[k].installed + 1].pool].max = 4

\* C31 (as claimed): every decode job submitted through the worker pool
\* eventually settles, also when dispose is called while it is queued or
\* in flight.
C31_EveryPoolJobSettles ==
    \A j \in 1..MaxJobs :
        (j \in DOMAIN jobs /\ jobs[j].prom # NoPromise)
            ~> (j \in DOMAIN jobs /\ Settled(j))

\* C32: for a pool that initialize constructs, no worker exists before a
\* decode job is pushed: a worker is created only by the push of a job that
\* finds no idle worker, one at a time and for that job; every worker of
\* the pool is bootstrapped with the binary and the script URL of the
\* initialization; and the pool never has more than numWorkers workers.
C32_WorkersCreatedOnDemand ==
    /\ [](\A p \in DOMAIN proms :
            (proms[p].kind = "pool" /\ ~proms[p].cfg.workerPool) =>
                /\ Cardinality(WorkersOf(p)) <= proms[p].cfg.numWorkers
                /\ Cardinality(WorkersOf(p)) <=
                      Cardinality({ j \in DOMAIN jobs : jobs[j].prom = p /\ jobs[j].pushed })
                /\ proms[p].st # "resolved" => WorkersOf(p) = {}
                /\ \A w \in WorkersOf(p) :
                      /\ workers[w].pool = proms[p].pool
                      /\ workers[w].bin = proms[p].bin
                      /\ workers[w].url = proms[p].url
                      /\ workers[w].bin =
                            (IF proms[p].cfg.wasmUrls /\ env.wasm
                             THEN (IF proms[p].cfg.wasmBinary THEN "provided" ELSE "fetch")
                             ELSE "none"))
    /\ [][Len(workers') # Len(workers) =>
            /\ Len(workers') = Len(workers) + 1
            /\ mq # << >> /\ Head(mq).t = "push"
            /\ jobs'[Head(mq).j].worker = Len(workers')
            /\ ~jobs[Head(mq).j].pushed /\ jobs'[Head(mq).j].pushed
            /\ \A w \in SeqToSet(pools[workers'[Len(workers')].pool].infos) :
                  ~workers[w].idle]_vars

C32_Witness ==
    \E p \in DOMAIN proms :
        /\ proms[p].kind = "pool" /\ ~proms[p].cfg.workerPool
        /\ proms[p].cfg.numWorkers = 2 /\ proms[p].bin = "provided"
        /\ Cardinality(WorkersOf(p)) = 2
        /\ \A w \in WorkersOf(p) : workers[w].ready /\ workers[w].bin = "provided"

\* C33: the caller's input buffers are never detached and keep their
\* bytes, whatever decode jobs are submitted, dispatched or fail; every job
\* posted to a worker sent the bytes of its input in a buffer of its own,
\* the one it transferred, also when another job was given the same input.
C33_InputBufferUntouched ==
    /\ \A d \in DOMAIN buffers : buffers[d] = [bytes |-> d, detached |-> FALSE]
    /\ \A j \in DOMAIN jobs :
          /\ jobs[j].posted =>
                /\ jobs[j].sent = << jobs[j].input.data >>
                /\ jobs[j].transferred = "dataViewCopy"
          /\ ~jobs[j].posted => (jobs[j].sent = << >> /\ jobs[j].transferred = "")
          /\ jobs[j].outcome = "resolved" =>
                jobs[j].response = << ExpectedResponse(jobs[j].input) >>

C33_Witness ==
    \E j, k \in DOMAIN jobs :
        /\ j < k /\ jobs[j].input.data = jobs[k].input.data /\ jobs[j].input.data # 0
        /\ jobs[j].st = "inflight" /\ jobs[k].posted
        /\ jobs[k].outcome = "resolved"
        /\ ~buffers[jobs[j].input.data].detached

\* The jobs whose input makes the worker reply with decodeMeshDone alone.
EmptyReplyJobs ==
    { j \in DOMAIN jobs : /\ jobs[j].posted
                          /\ DecodeMeshEvents(jobs[j].input.data) = << >> }

\* C34: a job whose worker replies with decodeMeshDone alone is rejected
\* only by a worker error event; otherwise it resolves, with no indices,
\* an empty attribute list and the totalVertices of the message; either way
\* it has called onComplete once and no longer holds its worker.
C34_EmptyReplyResolves ==
    /\ [](\A j \in EmptyReplyJobs :
            /\ jobs[j].resultAttributes = << >> /\ jobs[j].resultIndices = 0
            /\ jobs[j].outcome = "resolved" =>
                  jobs[j].response =
                      << [indices |-> 0, attributes |-> << >>,
                          totalVertices |-> DecodeMeshPoints(jobs[j].input.data)] >>
            /\ jobs[j].outcome = "rejected" => jobs[j].err = "ErrorEvent"
            /\ Settled(j) =>
                  /\ jobs[j].completes = 1 /\ jobs[j].st = "released"
                  /\ \/ workers[jobs[j].worker].idle
                     \/ \E k \in DOMAIN jobs :
                           k # j /\ HoldsWorker(k) /\ jobs[k].worker = jobs[j].worker)
    /\ [][\A j \in EmptyReplyJobs :
            (~Settled(j) /\ jobs'[j].outcome = "resolved") =>
                /\ Head(workers[jobs[j].worker].wq).id = "decodeMeshDone"
                /\ jobs'[j].response =
                      << [indices |-> 0, attributes |-> << >>,
                          totalVertices |-> Head(workers[jobs[j].worker].wq).totalVertices] >>]_vars

C34_Witness ==
    \E j \in EmptyReplyJobs :
        /\ jobs[j].outcome = "resolved"
        /\ jobs[j].response = << [indices |-> 0, attributes |-> << >>, totalVertices |-> 0] >>
        /\ jobs[j].completes = 1
        /\ workers[jobs[j].worker].idle /\ ~workers[jobs[j].worker].terminated

\* C35: the worker pool promise and the module promise are never both
\* installed; both are absent exactly when no initialize call has been
\* made since the codec was created or last disposed; and the one that is
\* installed is of the kind its field says.
C35_OnePromiseInstalled ==
    /\ ~(workerPoolPromise # NoPromise /\ modulePromise # NoPromise)
    /\ (workerPoolPromise = NoPromise /\ modulePromise = NoPromise) <=> epochInits = 0
    /\ workerPoolPromise # NoPromise =>
          (workerPoolPromise \in DOMAIN proms /\ proms[workerPoolPromise].kind = "pool")
    /\ modulePromise # NoPromise =>
          (modulePromise \in DOMAIN proms /\ proms[modulePromise].kind = "module")

C35_Witness ==
    /\ epoch >= 1 /\ epochInits >= 1
    /\ modulePromise # NoPromise /\ workerPoolPromise = NoPromise
    /\ \E p \in DOMAIN proms : p # modulePromise /\ proms[p].kind = "pool"
    /\ \E j \in DOMAIN jobs : jobs[j].outcome = "thrown"

\* The decode calls made after an initialize call, with no dispose between.
DecodesAfterInitialize == { j \in DOMAIN jobs : jobs[j].initialized }

\* C36: a decode call made after an initialize call (and before any
\* dispose) never throws the not-initialized error, however far the
\* initialization has got: it is registered on the promise that initialize
\* stored, stays pending and untouched while that promise is pending, is
\* pushed to the pool or run on the module only once the promise has
\* resolved, and fails before that only if the promise was rejected.
C36_DecodeAfterInitializeWaits ==
    \A j \in DecodesAfterInitialize :
        /\ jobs[j].outcome # "thrown"
        /\ jobs[j].err # "Draco decoder module is not available"
        /\ jobs[j].prom \in DOMAIN proms /\ proms[jobs[j].prom].epoch = jobs[j].epoch
        /\ proms[jobs[j].prom].st = "pending" =>
              (jobs[j].outcome = "pending" /\ ~jobs[j].pushed /\ ~jobs[j].invoked)
        /\ (jobs[j].pushed \/ jobs[j].invoked) => proms[jobs[j].prom].st = "resolved"
        /\ proms[jobs[j].prom].st = "rejected" =>
              (jobs[j].outcome = "rejected" /\ jobs[j].err = proms[jobs[j].prom].err
               /\ ~jobs[j].pushed /\ ~jobs[j].invoked)

C36_Witness ==
    \E j, k \in DecodesAfterInitialize :
        /\ proms[jobs[j].prom].fetches = 1
        /\ jobs[j].outcome = "resolved" /\ jobs[j].posted
        /\ proms[jobs[k].prom].st = "pending" /\ proms[jobs[k].prom].phase = "fetch"
        /\ jobs[k].st = "waitPool" /\ jobs[k].outcome = "pending"

\* The initializations that were disposed of while still in flight.
Superseded == { p \in DOMAIN proms : proms[p].epoch < epoch }

\* C37: a step that settles the promise of an initialization disposed of
\* in the meantime, by success or by failure, changes neither memoized
\* promise field nor the promise a later initialize installed; each
\* initialization builds a pool of its own; and a decode call is always
\* registered on the promise held when it was made and served by that
\* promise's pool or module, never by those of an earlier initialization.
C37_StaleCompletionWritesNothing ==
    /\ [][\A p \in Superseded :
            (proms[p].st = "pending" /\ proms'[p].st # "pending") =>
                /\ workerPoolPromise' = workerPoolPromise
                /\ modulePromise' = modulePromise
                /\ epochInits' = epochInits
                /\ \A q \in DOMAIN proms : q # p => proms'[q] = proms[q]
                /\ \A j \in DOMAIN jobs :
                      jobs[j].prom # p => jobs'[j] = jobs[j]]_vars
    /\ [](\A p, q \in DOMAIN proms :
            (p # q /\ ~proms[p].cfg.workerPool /\ proms[p].kind = "pool"
             /\ proms[q].kind = "pool") => proms[p].pool # proms[q].pool)
    /\ [](\A j \in DOMAIN jobs :
            jobs[j].prom # NoPromise =>
                /\ proms[jobs[j].prom].epoch = jobs[j].epoch
                /\ jobs[j].pushed => jobs[j].pool = proms[jobs[j].prom].pool
                /\ jobs[j].worker # NoWorker =>
                      /\ workers[jobs[j].worker].pool = proms[jobs[j].prom].pool
                      /\ workers[jobs[j].worker].prom = jobs[j].prom
                /\ jobs[j].invoked => proms[jobs[j].prom].kind = "module")
    /\ [](\A p \in {workerPoolPromise, modulePromise} \ {NoPromise} :
            proms[p].epoch = epoch)

C37_Witness ==
    \E a, b \in DOMAIN proms, j \in DOMAIN jobs :
        /\ a < b /\ proms[a].disposedAtSettle /\ proms[a].st = "resolved"
        /\ proms[a].kind = "pool" /\ pools[proms[a].pool].built
        /\ workerPoolPromise = b /\ proms[b].st = "resolved"
        /\ jobs[j].prom = b /\ jobs[j].outcome = "resolved" /\ jobs[j].posted
        /\ workers[jobs[j].worker].pool = proms[b].pool

\* ------------------------------------------- whenReadyAsync and decoding
\* One DracoCompression object built by its constructor, then initialize,
\* dispose and decode calls on it and calls of whenReadyAsync.
MaxWhenReady == 1

ReadyInit == NewCodec /\ env \in Envs

\* new DracoCompression(options)
ReadyConstruct ==
    /\ instances = << >>
    /\ \E o \in FacadeOptions : Construct(o)
    /\ UNCHANGED <<Default, calls>>

\* A slip: finding no promise, whenReadyAsync initializes the codec.
ReadyWhenReadyInitializes ==
    /\ instances # << >>
    /\ Len(calls) < MaxWhenReady
    /\ calls' = Append(calls, Call("whenReadyAsync", 1, FALSE, FALSE,
                                    instances[1].options, WhenReadyAwaits))
    /\ IF AlreadyInitialized \/ Len(proms) >= MaxInits
       THEN UNCHANGED <<workerPoolPromise, modulePromise, proms, mq>>
       ELSE Install(MergeConfig(instances[1].options))
    /\ UNCHANGED <<pools, workers, jobs, env, epoch, epochInits, firstConfig,
                   strays, buffers, Default, instances>>

\* whenReadyAsync() on the object
ReadyWhenReady ==
    /\ instances # << >>
    /\ Len(calls) < MaxWhenReady
    /\ calls' = Append(calls, Call("whenReadyAsync", 1, FALSE, FALSE,
                                    instances[1].options, WhenReadyAwaits))
    /\ UNCHANGED <<workerPoolPromise, modulePromise, proms, pools, workers, jobs, mq,
                   env, epoch, epochInits, firstConfig, strays, buffers, Default,
                   instances>>

ReadyInitialize == instances # << >> /\ CallInitialize

ReadyDispose == instances # << >> /\ CallDispose

ReadyDecode == instances # << >> /\ CallDecode

ReadyLoop == instances # << >> /\ (EventLoop \/ ModuleLoop)

ReadyNext ==
    \/ ReadyConstruct
    \/ ReadyWhenReady
    \/ ReadyInitialize
    \/ ReadyDispose
    \/ ReadyDecode
    \/ ReadyLoop

ReadySpec == ReadyInit /\ [][ReadyNext]_vars

\* The whenReadyAsync calls that found neither promise.
UnheldReadyCalls ==
    { k \in DOMAIN calls : calls[k].op = "whenReadyAsync" /\ calls[k].held = {} }

====
